---- MODULE Spec2Model ----
(***************************************************************************)
(* A model of ortelius: the viewport engine (src/src/layout.rs) with the   *)
(* value types Interval and Bounds and the PlotInstanceLayout; the         *)
(* growable GPU buffer (src/src/buffer.rs); the Line and its draw call     *)
(* (src/src/layer.rs); and the App's event handlers (src/src/winit.rs).    *)
(*                                                                         *)
(* f64 values are modelled as exact rationals [num, den] in lowest terms   *)
(* with den > 0: the model abstracts from rounding, NaN and the            *)
(* infinities, and keeps every comparison and every arithmetic step of     *)
(* the source.                                                             *)
(***************************************************************************)
EXTENDS Integers, Sequences, FiniteSets, TLC

VARIABLES
    \* PlotInstanceLayout's fields (layout.rs:84-93)
    logical_width, logical_height, padding, data_bounds, interaction_bounds,
    scale_factor,
    \* the last call made on the layout, its arguments and the layout before it
    last,
    \* the number of calls made so far
    calls,
    \* the operands of a Bounds::clamp / Bounds::bound call, the results of the
    \* calls made on them so far, and the last call made
    b_self, b_other, b_result, b_op,
    \* whether the build checks integer overflow (a debug build panics on it,
    \* a release build wraps)
    overflow_checks,
    \* the argument of pad_size, the results of the calls made so far (<<>> is
    \* a panic, <<v>> the value v) and the last call made
    p_size, p_result, p_op,
    \* size_of::<T>() of the GpuBuffer<T>
    elem_size,
    \* GpuBuffer's fields (buffer.rs:12-19); inner is the id of the device
    \* buffer, 0 before GpuBuffer::new
    length, capacity, inner,
    \* the device's buffers, by id: their size in bytes and their contents
    buffers,
    \* the command buffers returned by extend and not yet submitted, oldest first
    pending,
    \* whether a call has panicked
    panicked,
    \* the last call made on the buffer or the line, its arguments, the fields
    \* before it and the command buffer it returned
    g_last,
    \* the number of calls made on the buffer or the line so far
    g_calls,
    \* the initial length plus the length deltas of the extend calls made
    requested,
    \* the points given to the Line calls that returned, in call order
    points,
    \* the vertex counts of the draw calls of the last render
    draws,
    \* the variant of the App (winit.rs:23-40), the fields of Uninitialized
    \* (xs, ys, layout) and those of Initialized that the handlers assign
    \* (window is the id of the window, 0 before it is created)
    app, app_xs, app_ys, layout, window, input,
    \* whether event_loop.exit() and window.request_redraw() have been called
    exiting, redraw_requested,
    \* the last event delivered and the app before it, and the number of
    \* events delivered
    a_last, a_calls

layout_vars == <<logical_width, logical_height, padding, data_bounds,
                 interaction_bounds, scale_factor, last, calls>>
bounds_vars == <<b_self, b_other, b_result, b_op>>
pad_vars == <<overflow_checks, p_size, p_result, p_op>>
gpu_vars == <<elem_size, length, capacity, inner, buffers, pending, panicked,
              g_last, g_calls, requested, points, draws>>
app_vars == <<app, app_xs, app_ys, layout, window, input, exiting, redraw_requested,
              a_last, a_calls>>
vars == <<logical_width, logical_height, padding, data_bounds,
          interaction_bounds, scale_factor, last, calls,
          b_self, b_other, b_result, b_op,
          overflow_checks, p_size, p_result, p_op,
          elem_size, length, capacity, inner, buffers, pending, panicked,
          g_last, g_calls, requested, points, draws,
          app, app_xs, app_ys, layout, window, input, exiting, redraw_requested,
          a_last, a_calls>>

----------------------------------------------------------------------------
(* Exact rational arithmetic standing for f64.                             *)

Abs(n) == IF n < 0 THEN -n ELSE n

RECURSIVE GCD(_, _)
GCD(a, b) == IF b = 0 THEN a ELSE GCD(b, a % b)

\* n/d in lowest terms, d # 0
Rat(n, d) ==
    LET g == GCD(Abs(n), Abs(d))
        s == IF d < 0 THEN -1 ELSE 1
    IN  [num |-> (s * n) \div g, den |-> (s * d) \div g]

R(n) == [num |-> n, den |-> 1]

RAdd(p, q) == Rat(p.num * q.den + q.num * p.den, p.den * q.den)
RSub(p, q) == Rat(p.num * q.den - q.num * p.den, p.den * q.den)
RMul(p, q) == Rat(p.num * q.num, p.den * q.den)
RDiv(p, q) == Rat(p.num * q.den, p.den * q.num)
RLt(p, q) == p.num * q.den < q.num * p.den
RLe(p, q) == p.num * q.den <= q.num * p.den
RGt(p, q) == RLt(q, p)
RGe(p, q) == RLe(q, p)
\* f64::max and f64::min on numbers
RMax(p, q) == IF RLt(p, q) THEN q ELSE p
RMin(p, q) == IF RLt(q, p) THEN q ELSE p

----------------------------------------------------------------------------
(* Interval and Bounds (layout.rs:196-313).                                *)

Interval(lo, hi) == [min |-> lo, max |-> hi]

Interval_UNIT == Interval(R(0), R(1))

Bounds_UNIT == [x |-> Interval_UNIT, y |-> Interval_UNIT]

Interval_size(self) == RSub(self.max, self.min)

\* Interval::clamp with the two selections exchanged (the union's hull)
Interval_clamp_hull(self, other) ==
    [min |-> RMin(self.min, other.min), max |-> RMax(self.max, other.max)]

Interval_clamp(self, other) ==
    [min |-> RMax(self.min, other.min), max |-> RMin(self.max, other.max)]

\* Interval::bound with <= and >= in the two edge tests
Interval_bound_le(self, other) ==
    IF RGt(Interval_size(other), Interval_size(self)) THEN
        self
    ELSE IF RLe(other.min, self.min) THEN
        LET shift == RSub(self.min, other.min)
        IN  [min |-> self.min, max |-> RAdd(self.max, shift)]
    ELSE IF RGe(other.max, self.max) THEN
        LET shift == RSub(other.max, self.max)
        IN  [min |-> RSub(self.min, shift), max |-> self.max]
    ELSE
        [min |-> other.min, max |-> other.max]

\* Interval::bound without the test for an oversized argument
Interval_bound_no_ceiling(self, other) ==
    IF RLt(other.min, self.min) THEN
        LET shift == RSub(self.min, other.min)
        IN  [min |-> self.min, max |-> RAdd(self.max, shift)]
    ELSE IF RGt(other.max, self.max) THEN
        LET shift == RSub(other.max, self.max)
        IN  [min |-> RSub(self.min, shift), max |-> self.max]
    ELSE
        [min |-> other.min, max |-> other.max]

Interval_bound(self, other) ==
    IF RGt(Interval_size(other), Interval_size(self)) THEN
        self
    ELSE IF RLt(other.min, self.min) THEN
        LET shift == RSub(self.min, other.min)
        IN  [min |-> self.min, max |-> RAdd(self.max, shift)]
    ELSE IF RGt(other.max, self.max) THEN
        LET shift == RSub(other.max, self.max)
        IN  [min |-> RSub(self.min, shift), max |-> self.max]
    ELSE
        [min |-> other.min, max |-> other.max]

\* impl Add<f64> for Interval
Interval_add(self, other) ==
    [min |-> RAdd(self.min, other), max |-> RAdd(self.max, other)]

Bounds_clamp(self, other) ==
    [x |-> Interval_clamp(self.x, other.x), y |-> Interval_clamp(self.y, other.y)]

\* Bounds::bound with the y axis bounding other.x
Bounds_bound_other_x(self, other) ==
    [x |-> Interval_bound(self.x, other.x), y |-> Interval_bound(self.y, other.x)]

Bounds_bound(self, other) ==
    [x |-> Interval_bound(self.x, other.x), y |-> Interval_bound(self.y, other.y)]

----------------------------------------------------------------------------
(* Bounds of the model.                                                    *)

\* a run makes at most MaxCalls calls of resize, drag and zoom
MaxCalls == 2

Pos(x, y) == <<R(x), R(y)>>

\* Mouse positions in physical pixels.  With the 8 x 6 layout below and
\* scale factor 1: (4,2) is inside the plotting rectangle, (6,5) is its
\* bottom-right corner, (4,6) is below it, (12,12) is right of and below it.
\* With scale factor 2: (4,2) is the top-left corner, (6,5) and (4,6) are
\* inside and (12,12) is below the rectangle.
Positions == {Pos(4, 2), Pos(6, 5), Pos(4, 6), Pos(12, 12)}

\* zoom factors, all > 0: the wheel handler passes 1.0 + y / 10.0
Factors == {Rat(1, 2), R(1), Rat(3, 2)}

\* window sizes in physical pixels given to resize; each keeps the inner
\* width and height positive at both scale factors
Sizes == {<<12, 6>>, <<12, 10>>}

ScaleFactors == {R(1), R(2)}

Padding(t, b, l, r) == [top |-> R(t), bottom |-> R(b), left |-> R(l), right |-> R(r)]

Box(x0, x1, y0, y1) == [x |-> Interval(R(x0), R(x1)), y |-> Interval(R(y0), R(y1))]

\* The PlotLayout templates a run starts from: a finite interaction_bounds
\* and an initial_bounds (if any) inside it.
PlotLayouts ==
    { [width |-> R(8), height |-> R(6), padding |-> Padding(1, 1, 2, 2),
       initial_bounds |-> ib, interaction_bounds |-> Box(0, 8, 0, 8)]
      : ib \in {<<>>, <<Box(1, 5, 1, 5)>>} }

----------------------------------------------------------------------------
(* PlotInstanceLayout (layout.rs:44-63, 83-194).                           *)

\* the PlotInstanceLayout value held by the state variables
Self ==
    [logical_width |-> logical_width, logical_height |-> logical_height,
     padding |-> padding, data_bounds |-> data_bounds,
     interaction_bounds |-> interaction_bounds, scale_factor |-> scale_factor]

\* PlotLayout::instantiate; winit.rs:107 passes initial_data_bounds = None
instantiate(self, window_scale_factor, initial_data_bounds) ==
    LET bounds == IF self.initial_bounds # <<>> THEN self.initial_bounds[1]
                  ELSE IF initial_data_bounds # <<>> THEN initial_data_bounds[1]
                  ELSE Bounds_UNIT
    IN  [logical_width |-> self.width, logical_height |-> self.height,
         padding |-> self.padding, data_bounds |-> bounds,
         interaction_bounds |-> self.interaction_bounds,
         scale_factor |-> window_scale_factor]

is_on_inner(self, mouse_position) ==
    LET x == RDiv(mouse_position[1], self.scale_factor)
        y == RDiv(mouse_position[2], self.scale_factor)
    IN  /\ RGe(x, self.padding.left)
        /\ RLe(x, RSub(self.logical_width, self.padding.right))
        /\ RGe(y, self.padding.top)
        /\ RLe(y, RSub(self.logical_width, self.padding.bottom))

inner_width(self) ==
    RSub(RSub(self.logical_width, self.padding.left), self.padding.right)

inner_height(self) ==
    RSub(RSub(self.logical_height, self.padding.top), self.padding.bottom)

\* the fractional position measured from the top edge, Y not flipped
percentage_plot_position_unflipped(self, mouse_position) ==
    LET lx  == RDiv(mouse_position[1], self.scale_factor)
        ly  == RDiv(mouse_position[2], self.scale_factor)
        lpx == RSub(lx, self.padding.left)
        lpy == RSub(ly, self.padding.top)
    IN  <<RDiv(lpx, inner_width(self)), RDiv(lpy, inner_height(self))>>

\* the fractional position inside the padded plot, Y flipped
percentage_plot_position(self, mouse_position) ==
    LET lx  == RDiv(mouse_position[1], self.scale_factor)
        ly  == RSub(self.logical_height, RDiv(mouse_position[2], self.scale_factor))
        lpx == RSub(lx, self.padding.left)
        lpy == RSub(ly, self.padding.bottom)
    IN  <<RDiv(lpx, inner_width(self)), RDiv(lpy, inner_height(self))>>

\* Option<(f64, f64)>: <<>> is None, <<x, y>> is Some((x, y))
convert_to_data_position(self, mouse_position) ==
    LET pct == percentage_plot_position(self, mouse_position)
    IN  IF /\ RGe(pct[1], R(0)) /\ RLe(pct[1], R(1))
           /\ RGe(pct[2], R(0)) /\ RLe(pct[2], R(1))
        THEN <<RAdd(self.data_bounds.x.min,
                    RMul(pct[1], Interval_size(self.data_bounds.x))),
               RAdd(self.data_bounds.y.min,
                    RMul(pct[2], Interval_size(self.data_bounds.y)))>>
        ELSE <<>>

\* data_bounds after drag(start, pre, current)
drag_bounds(self, start_drag_mouse_position, pre_position, current_position) ==
    IF \/ ~is_on_inner(self, start_drag_mouse_position)
       \/ ~is_on_inner(self, pre_position)
       \/ ~is_on_inner(self, current_position)
    THEN self.data_bounds
    ELSE
        LET change == <<RSub(current_position[1], pre_position[1]),
                        RSub(current_position[2], pre_position[2])>>
            data_x == RDiv(RMul(change[1], Interval_size(self.data_bounds.x)),
                           RMul(self.scale_factor, inner_width(self)))
            data_y == RDiv(RMul(change[2], Interval_size(self.data_bounds.y)),
                           RMul(self.scale_factor, inner_height(self)))
            moved  == [x |-> Interval_add(self.data_bounds.x, data_x),
                       y |-> Interval_add(self.data_bounds.y, data_y)]
        IN  Bounds_clamp(self.interaction_bounds, moved)

\* data_bounds after zoom(mouse_position, factor)
zoom_bounds(self, mouse_position, factor) ==
    LET data_position == convert_to_data_position(self, mouse_position)
    IN  IF data_position = <<>> THEN self.data_bounds
        ELSE
            LET dx == data_position[1]
                dy == data_position[2]
                db == self.data_bounds
                scaled ==
                    [x |-> [min |-> RSub(dx, RMul(RSub(dx, db.x.min), factor)),
                            max |-> RAdd(dx, RMul(RSub(db.x.max, dx), factor))],
                     y |-> [min |-> RSub(dy, RMul(RSub(dy, db.y.min), factor)),
                            max |-> RAdd(dy, RMul(RSub(db.y.max, dy), factor))]]
            IN  Bounds_bound(self.interaction_bounds, scaled)

Call(op, pos, factor) == [op |-> op, pos |-> pos, factor |-> factor, pre |-> Self]

\* resize that also resets data_bounds
resize_resetting_data_bounds(width, height) ==
    /\ calls < MaxCalls
    /\ logical_width' = RDiv(R(width), scale_factor)
    /\ logical_height' = RDiv(R(height), scale_factor)
    /\ data_bounds' = Bounds_UNIT
    /\ last' = Call("resize", <<Pos(width, height)>>, R(1))
    /\ calls' = calls + 1
    /\ UNCHANGED <<padding, interaction_bounds, scale_factor>>
    /\ UNCHANGED <<bounds_vars, pad_vars, gpu_vars, app_vars>>

resize(width, height) ==
    /\ calls < MaxCalls
    /\ logical_width' = RDiv(R(width), scale_factor)
    /\ logical_height' = RDiv(R(height), scale_factor)
    /\ last' = Call("resize", <<Pos(width, height)>>, R(1))
    /\ calls' = calls + 1
    /\ UNCHANGED <<padding, data_bounds, interaction_bounds, scale_factor>>
    /\ UNCHANGED <<bounds_vars, pad_vars, gpu_vars, app_vars>>

drag(start_drag_mouse_position, pre_position, current_position) ==
    /\ calls < MaxCalls
    /\ data_bounds' = drag_bounds(Self, start_drag_mouse_position, pre_position,
                                  current_position)
    /\ last' = Call("drag", <<start_drag_mouse_position, pre_position,
                              current_position>>, R(1))
    /\ calls' = calls + 1
    /\ UNCHANGED <<logical_width, logical_height, padding, interaction_bounds,
                   scale_factor>>
    /\ UNCHANGED <<bounds_vars, pad_vars, gpu_vars, app_vars>>

zoom(mouse_position, factor) ==
    /\ calls < MaxCalls
    /\ data_bounds' = zoom_bounds(Self, mouse_position, factor)
    /\ last' = Call("zoom", <<mouse_position>>, factor)
    /\ calls' = calls + 1
    /\ UNCHANGED <<logical_width, logical_height, padding, interaction_bounds,
                   scale_factor>>
    /\ UNCHANGED <<bounds_vars, pad_vars, gpu_vars, app_vars>>

----------------------------------------------------------------------------
(* Bounds::clamp and Bounds::bound applied to drawn operands.              *)

\* interval endpoints, in tenths
Tenths == {-1, 0, 1, 2, 3, 9, 10, 11}

Endpoints == {Rat(k, 10) : k \in Tenths}

\* every interval over the endpoints, the ill-formed ones (max < min) included
Intervals == {Interval(lo, hi) : lo \in Endpoints, hi \in Endpoints}

\* the receivers: the unit interval, a narrow and a wide one
SelfIntervals == {Interval_UNIT, Interval(Rat(2, 10), Rat(3, 10)),
                  Interval(Rat(1, 10), Rat(9, 10))}

NoBounds == [x |-> Interval_UNIT, y |-> Interval_UNIT]

bound_call ==
    /\ b_op = "new"
    /\ b_result' = <<Bounds_bound(b_self, b_other)>>
    /\ b_op' = "bound"
    /\ UNCHANGED <<b_self, b_other>>
    /\ UNCHANGED <<layout_vars, pad_vars, gpu_vars, app_vars>>

clamp_call ==
    /\ b_op = "new"
    /\ b_result' = <<Bounds_clamp(b_self, b_other)>>
    /\ b_op' = "clamp"
    /\ UNCHANGED <<b_self, b_other>>
    /\ UNCHANGED <<layout_vars, pad_vars, gpu_vars, app_vars>>

\* a.clamp(b).clamp(b): the result of clamp_call clamped by b again
clamp_again_call ==
    /\ b_op = "clamp"
    /\ b_result' = Append(b_result, Bounds_clamp(b_result[1], b_other))
    /\ b_op' = "clamp_clamp"
    /\ UNCHANGED <<b_self, b_other>>
    /\ UNCHANGED <<layout_vars, pad_vars, gpu_vars, app_vars>>

----------------------------------------------------------------------------
(* u64 arithmetic (buffer.rs:7-10, 148-151).  A u64 is four 16-bit limbs,  *)
(* least significant first.  An operation that can overflow yields <<>>    *)
(* (a panic) or <<v>> (the value v).                                       *)

LimbBase == 2^16

U64(n) == <<n % LimbBase, n \div LimbBase, 0, 0>>

U64_to_int(a) == a[1] + a[2] * LimbBase

U64_MAX == <<LimbBase - 1, LimbBase - 1, LimbBase - 1, LimbBase - 1>>

\* the wrapped sum and whether it overflowed
U64_add(a, b) ==
    LET s1 == a[1] + b[1]
        s2 == a[2] + b[2] + s1 \div LimbBase
        s3 == a[3] + b[3] + s2 \div LimbBase
        s4 == a[4] + b[4] + s3 \div LimbBase
    IN  [value |-> <<s1 % LimbBase, s2 % LimbBase, s3 % LimbBase, s4 % LimbBase>>,
         overflow |-> s4 >= LimbBase]

\* the wrapped difference and whether it overflowed
U64_sub(a, b) ==
    LET d1 == a[1] - b[1]
        d2 == a[2] - b[2] - (IF d1 < 0 THEN 1 ELSE 0)
        d3 == a[3] - b[3] - (IF d2 < 0 THEN 1 ELSE 0)
        d4 == a[4] - b[4] - (IF d3 < 0 THEN 1 ELSE 0)
    IN  [value |-> <<d1 % LimbBase, d2 % LimbBase, d3 % LimbBase, d4 % LimbBase>>,
         overflow |-> d4 < 0]

\* a + b and a - b as the build computes them
checked(r) == IF r.overflow /\ overflow_checks THEN <<>> ELSE <<r.value>>

RECURSIVE LimbAndNot(_, _, _)
LimbAndNot(x, m, bits) ==
    IF bits = 0 THEN 0
    ELSE (x % 2) * (1 - (m % 2)) + 2 * LimbAndNot(x \div 2, m \div 2, bits - 1)

\* a & !m
U64_and_not(a, m) ==
    <<LimbAndNot(a[1], m[1], 16), LimbAndNot(a[2], m[2], 16),
      LimbAndNot(a[3], m[3], 16), LimbAndNot(a[4], m[4], 16)>>

U64_lt(a, b) ==
    \E i \in 1..4 : a[i] < b[i] /\ \A j \in (i + 1)..4 : a[j] = b[j]

U64_le(a, b) == a = b \/ U64_lt(a, b)

U64_max(a, b) == IF U64_lt(a, b) THEN b ELSE a

\* wgpu::COPY_BUFFER_ALIGNMENT
COPY_BUFFER_ALIGNMENT == 4

MEGABYTE == 1048576

\* pad_size without the .max(COPY_BUFFER_ALIGNMENT)
pad_size_no_max(size) ==
    LET align_mask == U64_sub(U64(COPY_BUFFER_ALIGNMENT), U64(1)).value
        sum == checked(U64_add(size, align_mask))
    IN  IF sum = <<>> THEN <<>>
        ELSE <<U64_and_not(sum[1], align_mask)>>

pad_size(size) ==
    LET align_mask == U64_sub(U64(COPY_BUFFER_ALIGNMENT), U64(1)).value
        sum == checked(U64_add(size, align_mask))
    IN  IF sum = <<>> THEN <<>>
        ELSE <<U64_max(U64_and_not(sum[1], align_mask), U64(COPY_BUFFER_ALIGNMENT))>>

default_growth(current, required_size, is_initial) ==
    LET sum == checked(U64_add(required_size, U64(MEGABYTE)))
        dec == IF sum = <<>> THEN <<>> ELSE checked(U64_sub(sum[1], U64(1)))
    IN  IF dec = <<>> THEN <<>>
        ELSE <<U64_and_not(dec[1], U64(MEGABYTE))>>

\* the sizes pad_size is applied to: 0..MaxPadSize and the MaxPadSize + 1
\* largest u64 values
MaxPadSize == 48

PadSizes ==
    {U64(n) : n \in 0..MaxPadSize}
    \cup {U64_sub(U64_MAX, U64(n)).value : n \in 0..MaxPadSize}

pad_call ==
    /\ p_op = "new"
    /\ p_result' = <<pad_size(p_size)>>
    /\ p_op' = "pad"
    /\ UNCHANGED <<overflow_checks, p_size>>
    /\ UNCHANGED <<layout_vars, bounds_vars, gpu_vars, app_vars>>

\* pad_size(pad_size(s)), when the first call returned
pad_again_call ==
    /\ p_op = "pad"
    /\ p_result[1] # <<>>
    /\ p_result' = Append(p_result, pad_size(p_result[1][1]))
    /\ p_op' = "pad_pad"
    /\ UNCHANGED <<overflow_checks, p_size>>
    /\ UNCHANGED <<layout_vars, bounds_vars, gpu_vars, app_vars>>

----------------------------------------------------------------------------
(* GpuBuffer<T> (buffer.rs:12-140) on a device.  A device buffer is its     *)
(* byte size and the elements written to it (every other element is zero); *)
(* a buffer is named by its index in buffers.  A command buffer is the     *)
(* sequence of copies encoded into it; pending holds the command buffers   *)
(* returned to the caller and not yet submitted.                           *)

\* self.growth, on byte counts that fit the model's integers
growth(current, required_size, is_initial) ==
    U64_to_int(default_growth(U64(current), U64(required_size), is_initial)[1])

\* a capacity taken from the growth function as it is, without pad_size
pad_unaligned(size) == size

\* pad_size on byte counts that fit the model's integers
pad(size) == U64_to_int(pad_size(U64(size))[1])

GSelf == [length |-> length, capacity |-> capacity, inner |-> inner]

\* device.create_buffer: the device with the new buffer, whose index is its length
create_buffer(bufs, size, data) == Append(bufs, [size |-> size, data |-> data])

\* encoder.copy_buffer_to_buffer(src, src_offset, dst, dst_offset, size)
copy_buffer_to_buffer(src, src_offset, dst, dst_offset, size) ==
    [src |-> src, src_offset |-> src_offset, dst |-> dst,
     dst_offset |-> dst_offset, size |-> size]

\* bytemuck::cast_slice_mut(bytes)[..len] on a mapped buffer of the given byte
\* size: panics when the bytes are not a whole number of T or fewer than len
slice_panics(size, len) ==
    size % elem_size # 0 \/ size \div elem_size < len

GpuBuffer_size(self) == self.length * elem_size

COPY_USAGES == {"COPY_SRC", "COPY_DST"}

GpuBuffer_new(bufs, usage, len, filled) ==
    LET cap == pad(growth(0, len * elem_size, TRUE))
    IN  IF ~(COPY_USAGES \subseteq usage) THEN
            [panic |-> TRUE, self |-> [length |-> 0, capacity |-> 0, inner |-> 0],
             buffers |-> bufs]
        ELSE IF slice_panics(cap, len) THEN
            [panic |-> TRUE, self |-> [length |-> 0, capacity |-> 0, inner |-> 0],
             buffers |-> create_buffer(bufs, cap, <<>>)]
        ELSE
            [panic |-> FALSE,
             self |-> [length |-> len, capacity |-> cap, inner |-> Len(bufs) + 1],
             buffers |-> create_buffer(bufs, cap, filled)]

\* grow without its two assertions
GpuBuffer_grow_unchecked(self, bufs, required_size) ==
    LET new_capacity == pad(growth(self.capacity, required_size, FALSE))
    IN  [panic |-> FALSE,
         self |-> [self EXCEPT !.inner = Len(bufs) + 1, !.capacity = new_capacity],
         buffers |-> create_buffer(bufs, new_capacity, <<>>),
         encoder |-> <<copy_buffer_to_buffer(self.inner, 0, Len(bufs) + 1, 0,
                                             GpuBuffer_size(self))>>]

\* grow that encodes no copy of the used bytes
GpuBuffer_grow_no_copy(self, bufs, required_size) ==
    LET new_capacity == pad(growth(self.capacity, required_size, FALSE))
    IN  IF ~(new_capacity >= required_size) \/ ~(new_capacity > self.capacity) THEN
            [panic |-> TRUE, self |-> self, buffers |-> bufs, encoder |-> <<>>]
        ELSE
            [panic |-> FALSE,
             self |-> [self EXCEPT !.inner = Len(bufs) + 1, !.capacity = new_capacity],
             buffers |-> create_buffer(bufs, new_capacity, <<>>),
             encoder |-> <<>>]

GpuBuffer_grow(self, bufs, required_size) ==
    LET new_capacity == pad(growth(self.capacity, required_size, FALSE))
    IN  IF ~(new_capacity >= required_size) \/ ~(new_capacity > self.capacity) THEN
            [panic |-> TRUE, self |-> self, buffers |-> bufs, encoder |-> <<>>]
        ELSE
            [panic |-> FALSE,
             self |-> [self EXCEPT !.inner = Len(bufs) + 1, !.capacity = new_capacity],
             buffers |-> create_buffer(bufs, new_capacity, <<>>),
             encoder |-> <<copy_buffer_to_buffer(self.inner, 0, Len(bufs) + 1, 0,
                                                 GpuBuffer_size(self))>>]

\* extend that leaves length as it was
GpuBuffer_extend_keeps_length(self, bufs, len, filled) ==
    LET extra_size == len * elem_size
        required_size == GpuBuffer_size(self) + extra_size
        g == IF required_size > self.capacity
             THEN GpuBuffer_grow(self, bufs, required_size)
             ELSE [panic |-> FALSE, self |-> self, buffers |-> bufs, encoder |-> <<>>]
        temp == Len(g.buffers) + 1
    IN  IF g.panic THEN
            [panic |-> TRUE, self |-> self, buffers |-> bufs, commands |-> <<>>]
        ELSE IF slice_panics(pad(extra_size), len) THEN
            [panic |-> TRUE, self |-> g.self,
             buffers |-> create_buffer(g.buffers, pad(extra_size), <<>>),
             commands |-> <<>>]
        ELSE
            [panic |-> FALSE,
             self |-> g.self,
             buffers |-> create_buffer(g.buffers, pad(extra_size), filled),
             commands |-> Append(g.encoder,
                 copy_buffer_to_buffer(temp, 0, g.self.inner,
                                       GpuBuffer_size(self), extra_size))]

\* extend that encodes the data copy before the growth copy
GpuBuffer_extend_fill_first(self, bufs, len, filled) ==
    LET extra_size == len * elem_size
        required_size == GpuBuffer_size(self) + extra_size
        g == IF required_size > self.capacity
             THEN GpuBuffer_grow(self, bufs, required_size)
             ELSE [panic |-> FALSE, self |-> self, buffers |-> bufs, encoder |-> <<>>]
        temp == Len(g.buffers) + 1
    IN  IF g.panic THEN
            [panic |-> TRUE, self |-> self, buffers |-> bufs, commands |-> <<>>]
        ELSE IF slice_panics(pad(extra_size), len) THEN
            [panic |-> TRUE, self |-> g.self,
             buffers |-> create_buffer(g.buffers, pad(extra_size), <<>>),
             commands |-> <<>>]
        ELSE
            [panic |-> FALSE,
             self |-> [g.self EXCEPT !.length = @ + len],
             buffers |-> create_buffer(g.buffers, pad(extra_size), filled),
             commands |-> <<copy_buffer_to_buffer(temp, 0, g.self.inner,
                                       GpuBuffer_size(self), extra_size)>> \o g.encoder]

\* a panic leaves what the call had already assigned: grow's new buffer and
\* capacity when the staging slice panics
GpuBuffer_extend(self, bufs, len, filled) ==
    LET extra_size == len * elem_size
        required_size == GpuBuffer_size(self) + extra_size
        g == IF required_size > self.capacity
             THEN GpuBuffer_grow(self, bufs, required_size)
             ELSE [panic |-> FALSE, self |-> self, buffers |-> bufs, encoder |-> <<>>]
        temp == Len(g.buffers) + 1
    IN  IF g.panic THEN
            [panic |-> TRUE, self |-> self, buffers |-> bufs, commands |-> <<>>]
        ELSE IF slice_panics(pad(extra_size), len) THEN
            [panic |-> TRUE, self |-> g.self,
             buffers |-> create_buffer(g.buffers, pad(extra_size), <<>>),
             commands |-> <<>>]
        ELSE
            [panic |-> FALSE,
             self |-> [g.self EXCEPT !.length = @ + len],
             buffers |-> create_buffer(g.buffers, pad(extra_size), filled),
             commands |-> Append(g.encoder,
                 copy_buffer_to_buffer(temp, 0, g.self.inner,
                                       GpuBuffer_size(self), extra_size))]

\* the element at index i (from 1) of a device buffer
Elem(buf, i) == IF i <= Len(buf.data) THEN buf.data[i] ELSE 0

\* the device after one copy has run
run_copy(bufs, c) ==
    LET count == c.size \div elem_size
        from == c.src_offset \div elem_size
        to == c.dst_offset \div elem_size
        n == IF Len(bufs[c.dst].data) > to + count THEN Len(bufs[c.dst].data)
             ELSE to + count
    IN  [bufs EXCEPT ![c.dst].data =
            [i \in 1..n |-> IF i > to /\ i <= to + count
                            THEN Elem(bufs[c.src], from + i - to)
                            ELSE Elem(bufs[c.dst], i)]]

\* the device after the copies of one command buffer have run in order
RECURSIVE run_commands(_, _)
run_commands(bufs, commands) ==
    IF commands = <<>> THEN bufs
    ELSE run_commands(run_copy(bufs, Head(commands)), Tail(commands))

\* what a call on the buffer did: the buffer before it and what it returned
GCall(op, len, r, commands) ==
    [op |-> op, pre |-> GSelf, len |-> len, panic |-> r.panic,
     grew |-> ~r.panic /\ r.self.inner # inner, commands |-> commands,
     pending |-> pending, device |-> buffers]

\* the element sizes, lengths and usages the buffer is exercised with
ElemSizes == {1, 2, 4, 12, 524288}

MaxLength == 3

MaxBufferCalls == 3

Usages == {{"COPY_SRC", "COPY_DST", "STORAGE"}, {"COPY_DST", "STORAGE"}}

\* the elements a fill closure writes: len copies of the call's number
Filled(len) == [i \in 1..len |-> g_calls + 1]

apply(r) ==
    /\ length' = r.self.length
    /\ capacity' = r.self.capacity
    /\ inner' = r.self.inner
    /\ buffers' = r.buffers
    /\ panicked' = r.panic

new_call(usage, len) ==
    /\ g_last.op = "none"
    /\ LET r == GpuBuffer_new(buffers, usage, len, Filled(len))
       IN  /\ apply(r)
           /\ g_last' = [usage |-> usage] @@ GCall("new", len, r, <<>>)
           /\ requested' = len
    /\ g_calls' = g_calls + 1
    /\ UNCHANGED <<elem_size, pending, points, draws>>
    /\ UNCHANGED <<layout_vars, bounds_vars, pad_vars, app_vars>>

extend_call(len) ==
    /\ inner # 0
    /\ ~panicked
    /\ g_calls < MaxBufferCalls
    /\ LET r == GpuBuffer_extend(GSelf, buffers, len, Filled(len))
       IN  /\ apply(r)
           /\ g_last' = GCall("extend", len, r, r.commands)
           /\ pending' = IF r.panic THEN pending ELSE Append(pending, r.commands)
    /\ requested' = requested + len
    /\ g_calls' = g_calls + 1
    /\ UNCHANGED <<elem_size, points, draws>>
    /\ UNCHANGED <<layout_vars, bounds_vars, pad_vars, app_vars>>

\* queue.submit of the oldest command buffer not yet submitted
submit ==
    /\ pending # <<>>
    /\ ~panicked
    /\ buffers' = run_commands(buffers, Head(pending))
    /\ pending' = Tail(pending)
    /\ UNCHANGED <<elem_size, length, capacity, inner, panicked, g_last, g_calls,
                   requested, points, draws>>
    /\ UNCHANGED <<layout_vars, bounds_vars, pad_vars, app_vars>>

----------------------------------------------------------------------------
(* Line (layer.rs:133-170) and the draw call of LineRenderer::render        *)
(* (layer.rs:125-129).  A Line is a GpuBuffer<f32>; an f32 is the integer  *)
(* it holds.                                                               *)

\* the slice the fill closure of Line::new and Line::extend writes; ys[i] is
\* in range whenever the lengths agree
interleave(xs, ys) ==
    [i \in 1..(2 * Len(xs)) |->
        IF i % 2 = 1 THEN xs[(i + 1) \div 2]
        ELSE IF i \div 2 <= Len(ys) THEN ys[i \div 2] ELSE 0]

Line_usage == {"STORAGE", "COPY_DST", "COPY_SRC"}

Line_new(bufs, xs, ys) ==
    IF Len(xs) # Len(ys) THEN
        [panic |-> TRUE, self |-> [length |-> 0, capacity |-> 0, inner |-> 0],
         buffers |-> bufs]
    ELSE GpuBuffer_new(bufs, Line_usage, 2 * Len(xs), interleave(xs, ys))

Line_append(self, bufs, x, y) == GpuBuffer_extend(self, bufs, 2, <<x, y>>)

\* Line::extend without its assertion
Line_extend_unchecked(self, bufs, xs, ys) ==
    GpuBuffer_extend(self, bufs, 2 * Len(xs), interleave(xs, ys))

Line_extend(self, bufs, xs, ys) ==
    IF Len(xs) # Len(ys) THEN
        [panic |-> TRUE, self |-> self, buffers |-> bufs, commands |-> <<>>]
    ELSE GpuBuffer_extend(self, bufs, 2 * Len(xs), interleave(xs, ys))

\* the points of xs and ys, in order, as interleave pairs them
zip(xs, ys) ==
    [i \in 1..Len(xs) |-> <<interleave(xs, ys)[2 * i - 1], interleave(xs, ys)[2 * i]>>]

\* what a call on the line did
LCall(op, xs, ys, r, commands) ==
    [op |-> op, pre |-> GSelf, len |-> 2 * Len(xs), panic |-> r.panic,
     grew |-> ~r.panic /\ r.self.inner # inner, commands |-> commands,
     pending |-> pending, device |-> buffers, xs |-> xs, ys |-> ys]

\* the slices and points the line is exercised with
XsSamples == {<<>>, <<3>>, <<0, 1, 2>>}

YsSamples == {<<>>, <<1>>, <<0, 1, 0>>}

PointSamples == {<<3, 1>>}

MaxLineCalls == 3

Line_new_call(xs, ys) ==
    /\ g_last.op = "none"
    /\ LET r == Line_new(buffers, xs, ys)
       IN  /\ apply(r)
           /\ g_last' = LCall("Line_new", xs, ys, r, <<>>)
           /\ points' = IF r.panic THEN points ELSE zip(xs, ys)
           /\ requested' = 2 * Len(xs)
    /\ g_calls' = g_calls + 1
    /\ UNCHANGED <<elem_size, pending, draws>>
    /\ UNCHANGED <<layout_vars, bounds_vars, pad_vars, app_vars>>

append_call(x, y) ==
    /\ inner # 0
    /\ ~panicked
    /\ g_calls < MaxLineCalls
    /\ LET r == Line_append(GSelf, buffers, x, y)
       IN  /\ apply(r)
           /\ g_last' = LCall("append", <<x>>, <<y>>, r, r.commands)
           /\ pending' = IF r.panic THEN pending ELSE Append(pending, r.commands)
           /\ points' = IF r.panic THEN points ELSE Append(points, <<x, y>>)
    /\ requested' = requested + 2
    /\ g_calls' = g_calls + 1
    /\ draws' = <<>>
    /\ UNCHANGED elem_size
    /\ UNCHANGED <<layout_vars, bounds_vars, pad_vars, app_vars>>

Line_extend_call(xs, ys) ==
    /\ inner # 0
    /\ ~panicked
    /\ g_calls < MaxLineCalls
    /\ LET r == Line_extend(GSelf, buffers, xs, ys)
       IN  /\ apply(r)
           /\ g_last' = LCall("Line_extend", xs, ys, r, r.commands)
           /\ pending' = IF r.panic THEN pending ELSE Append(pending, r.commands)
           /\ points' = IF r.panic THEN points ELSE points \o zip(xs, ys)
    /\ requested' = requested + 2 * Len(xs)
    /\ g_calls' = g_calls + 1
    /\ draws' = <<>>
    /\ UNCHANGED elem_size
    /\ UNCHANGED <<layout_vars, bounds_vars, pad_vars, app_vars>>

\* LineRenderer::render on the one line: draws holds the vertex count of each
\* draw call of the frame rendered since the line last changed
render ==
    /\ inner # 0
    /\ ~panicked
    /\ draws' = <<length * 2>>
    /\ UNCHANGED <<elem_size, length, capacity, inner, buffers, pending, panicked,
                   g_last, g_calls, requested, points>>
    /\ UNCHANGED <<layout_vars, bounds_vars, pad_vars, app_vars>>

----------------------------------------------------------------------------
(* App (winit.rs:23-40, 80-252): the handler of the window's events.  When *)
(* Initialized, its layout is the PlotInstanceLayout of the layout         *)
(* variables and its line the Line of the buffer variables.                *)

\* Input::default()
Input_default ==
    [keyboard_modifiers |-> "none", is_mouse_down |-> <<>>, prior_position |-> <<>>]

\* the window created by resumed, and the ids an event can carry
WindowId == 1

WindowIds == {1, 2}

\* the events delivered to window_event
MouseWheelDeltas ==
    {[kind |-> "LineDelta", y |-> -5], [kind |-> "LineDelta", y |-> 5],
     [kind |-> "PixelDelta", y |-> 0]}

WindowEvents ==
    {[type |-> "CloseRequested"], [type |-> "CursorLeft"],
     [type |-> "RedrawRequested"], [type |-> "Focused"]}
    \cup {[type |-> "ModifiersChanged", state |-> "SHIFT"]}
    \cup {[type |-> "KeyboardInput", state |-> s, logical_key |-> k] :
             s \in {"Pressed", "Released"}, k \in {"Escape", "Enter"}}
    \cup {[type |-> "Resized", size |-> sz] : sz \in Sizes}
    \cup {[type |-> "MouseInput", state |-> s, button |-> b] :
             s \in {"Pressed", "Released"}, b \in {"Left", "Right"}}
    \cup {[type |-> "MouseWheel", delta |-> d] : d \in MouseWheelDeltas}
    \cup {[type |-> "CursorMoved", position |-> p] : p \in Positions}

\* the zoom factor of a MouseWheel event
wheel_factor(delta) ==
    IF delta.kind = "LineDelta" THEN RAdd(R(1), Rat(delta.y, 10))
    ELSE RAdd(R(1), Rat(delta.y, 500))

\* whether a CursorMoved event drags, and whether a MouseWheel event zooms
drags == input.is_mouse_down # <<>> /\ input.prior_position # <<>>

zooms == input.prior_position # <<>>

\* input after the event
event_input(event) ==
    CASE event.type = "ModifiersChanged" ->
            [input EXCEPT !.keyboard_modifiers = event.state]
      [] event.type = "MouseInput" ->
            IF event.button = "Left"
            THEN [input EXCEPT !.is_mouse_down =
                     IF event.state = "Pressed" THEN input.prior_position ELSE <<>>]
            ELSE input
      [] event.type = "CursorLeft" -> [input EXCEPT !.prior_position = <<>>]
      [] event.type = "CursorMoved" ->
            [input EXCEPT !.prior_position = <<event.position>>]
      [] OTHER -> input

\* layout after the event
event_layout(event) ==
    CASE event.type = "Resized" ->
            [Self EXCEPT !.logical_width = RDiv(R(event.size[1]), scale_factor),
                         !.logical_height = RDiv(R(event.size[2]), scale_factor)]
      [] event.type = "MouseWheel" /\ zooms ->
            [Self EXCEPT !.data_bounds =
                zoom_bounds(Self, input.prior_position[1], wheel_factor(event.delta))]
      [] event.type = "CursorMoved" /\ drags ->
            [Self EXCEPT !.data_bounds =
                drag_bounds(Self, input.is_mouse_down[1], input.prior_position[1],
                            event.position)]
      [] OTHER -> Self

\* whether the event calls event_loop.exit()
event_exits(event) ==
    \/ event.type = "CloseRequested"
    \/ /\ event.type = "KeyboardInput"
       /\ event.state = "Pressed"
       /\ event.logical_key = "Escape"

\* whether the event calls window.request_redraw()
event_requests_redraw(event) ==
    \/ event.type = "Resized"
    \/ event.type = "MouseWheel" /\ zooms
    \/ event.type = "CursorMoved" /\ drags

\* the app, its layout and its line, as an event finds them
AppSelf ==
    [app |-> app, xs |-> app_xs, ys |-> app_ys, layout |-> layout, window |-> window,
     input |-> input, exiting |-> exiting, redraw_requested |-> redraw_requested,
     instance |-> Self, line |-> GSelf, buffers |-> buffers, pending |-> pending,
     draws |-> draws]

\* what an event was, and the app before it
AEvent(handler, window_id, event) ==
    [handler |-> handler, window_id |-> window_id, event |-> event, pre |-> AppSelf]

MaxEvents == 4

\* created: whether the window and the surface could be created (the
\* unwrap and the expect of winit.rs:95, 104 panic when they could not)
resumed(created, window_scale_factor) ==
    /\ a_calls < MaxEvents
    /\ ~panicked
    /\ a_last' = AEvent("resumed", 0, [type |-> "Resumed"])
    /\ a_calls' = a_calls + 1
    /\ LET r == Line_new(buffers, app_xs, app_ys)
           l == instantiate(layout, window_scale_factor, <<>>)
       IN  IF app = "Initialized" THEN
               UNCHANGED <<app, window, input, redraw_requested, logical_width,
                           logical_height, padding, data_bounds,
                           interaction_bounds, scale_factor, length, capacity,
                           inner, buffers, g_last, points, requested, panicked>>
           ELSE IF ~created \/ r.panic THEN
               /\ panicked' = TRUE
               /\ UNCHANGED <<app, window, input, redraw_requested, logical_width,
                              logical_height, padding, data_bounds,
                              interaction_bounds, scale_factor, length, capacity,
                              inner, buffers, g_last, points, requested>>
           ELSE
               /\ app' = "Initialized"
               /\ window' = WindowId
               /\ input' = Input_default
               /\ redraw_requested' = TRUE
               /\ logical_width' = l.logical_width
               /\ logical_height' = l.logical_height
               /\ padding' = l.padding
               /\ data_bounds' = l.data_bounds
               /\ interaction_bounds' = l.interaction_bounds
               /\ scale_factor' = l.scale_factor
               /\ length' = r.self.length
               /\ capacity' = r.self.capacity
               /\ inner' = r.self.inner
               /\ buffers' = r.buffers
               /\ g_last' = LCall("Line_new", app_xs, app_ys, r, <<>>)
               /\ points' = zip(app_xs, app_ys)
               /\ requested' = 2 * Len(app_xs)
               /\ panicked' = FALSE
    /\ UNCHANGED <<app_xs, app_ys, layout, exiting, last, calls, elem_size, pending,
                   g_calls, draws>>
    /\ UNCHANGED <<bounds_vars, pad_vars>>

\* window_event without the comparison of window ids
window_event_any_window(window_id, event) ==
    /\ a_calls < MaxEvents
    /\ ~panicked
    /\ a_last' = AEvent("window_event", window_id, event)
    /\ a_calls' = a_calls + 1
    /\ IF app = "Uninitialized" THEN
           /\ UNCHANGED <<input, exiting, redraw_requested, logical_width,
                          logical_height, data_bounds, draws>>
       ELSE
           /\ input' = event_input(event)
           /\ exiting' = (exiting \/ event_exits(event))
           /\ redraw_requested' = (redraw_requested \/ event_requests_redraw(event))
           /\ logical_width' = event_layout(event).logical_width
           /\ logical_height' = event_layout(event).logical_height
           /\ data_bounds' = event_layout(event).data_bounds
           /\ draws' = IF event.type = "RedrawRequested" THEN <<length * 2>> ELSE draws
    /\ UNCHANGED <<app, app_xs, app_ys, layout, window, padding, interaction_bounds,
                   scale_factor, last, calls, elem_size, length, capacity, inner,
                   buffers, pending, panicked, g_last, g_calls, requested, points>>
    /\ UNCHANGED <<bounds_vars, pad_vars>>

window_event(window_id, event) ==
    /\ a_calls < MaxEvents
    /\ ~panicked
    /\ a_last' = AEvent("window_event", window_id, event)
    /\ a_calls' = a_calls + 1
    /\ IF app = "Uninitialized" \/ window # window_id THEN
           /\ UNCHANGED <<input, exiting, redraw_requested, logical_width,
                          logical_height, data_bounds, draws>>
       ELSE
           /\ input' = event_input(event)
           /\ exiting' = (exiting \/ event_exits(event))
           /\ redraw_requested' = (redraw_requested \/ event_requests_redraw(event))
           /\ logical_width' = event_layout(event).logical_width
           /\ logical_height' = event_layout(event).logical_height
           /\ data_bounds' = event_layout(event).data_bounds
           /\ draws' = IF event.type = "RedrawRequested" THEN <<length * 2>> ELSE draws
    /\ UNCHANGED <<app, app_xs, app_ys, layout, window, padding, interaction_bounds,
                   scale_factor, last, calls, elem_size, length, capacity, inner,
                   buffers, pending, panicked, g_last, g_calls, requested, points>>
    /\ UNCHANGED <<bounds_vars, pad_vars>>

----------------------------------------------------------------------------
(* Specifications.                                                         *)

LayoutIdle ==
    LET l == instantiate(CHOOSE t \in PlotLayouts : t.initial_bounds = <<>>, R(1), <<>>)
    IN  /\ logical_width = l.logical_width
        /\ logical_height = l.logical_height
        /\ padding = l.padding
        /\ data_bounds = l.data_bounds
        /\ interaction_bounds = l.interaction_bounds
        /\ scale_factor = l.scale_factor
        /\ last = [op |-> "new", pos |-> <<>>, factor |-> R(1), pre |-> l]
        /\ calls = 0

BoundsIdle ==
    /\ b_self = NoBounds
    /\ b_other = NoBounds
    /\ b_result = <<>>
    /\ b_op = "new"

PadIdle ==
    /\ overflow_checks = TRUE
    /\ p_size = U64(0)
    /\ p_result = <<>>
    /\ p_op = "new"

\* no GpuBuffer and no Line yet, an empty device
GpuIdle ==
    /\ elem_size = 4
    /\ length = 0
    /\ capacity = 0
    /\ inner = 0
    /\ buffers = <<>>
    /\ pending = <<>>
    /\ panicked = FALSE
    /\ g_last = [op |-> "none"]
    /\ g_calls = 0
    /\ requested = 0
    /\ points = <<>>
    /\ draws = <<>>

\* no App
AppIdle ==
    /\ app = "Uninitialized"
    /\ app_xs = <<>>
    /\ app_ys = <<>>
    /\ layout = CHOOSE t \in PlotLayouts : t.initial_bounds = <<>>
    /\ window = 0
    /\ input = Input_default
    /\ exiting = FALSE
    /\ redraw_requested = FALSE
    /\ a_last = [handler |-> "none"]
    /\ a_calls = 0

\* a layout instantiated from a template on a window of some scale factor
Init ==
    /\ \E t \in PlotLayouts, sf \in ScaleFactors :
          LET l == instantiate(t, sf, <<>>)
          IN  /\ logical_width = l.logical_width
              /\ logical_height = l.logical_height
              /\ padding = l.padding
              /\ data_bounds = l.data_bounds
              /\ interaction_bounds = l.interaction_bounds
              /\ scale_factor = l.scale_factor
              /\ last = [op |-> "new", pos |-> <<>>, factor |-> R(1), pre |-> l]
    /\ calls = 0
    /\ BoundsIdle
    /\ PadIdle
    /\ AppIdle
    /\ GpuIdle

Next ==
    \/ \E sz \in Sizes : resize(sz[1], sz[2])
    \/ \E s \in Positions, p \in Positions, c \in Positions : drag(s, p, c)
    \/ \E p \in Positions, f \in Factors : zoom(p, f)

Spec == Init /\ [][Next]_vars

InitBounds ==
    /\ LayoutIdle
    /\ PadIdle
    /\ AppIdle
    /\ GpuIdle
    /\ b_self \in [x : SelfIntervals, y : SelfIntervals]
    /\ b_other \in [x : Intervals, y : Intervals]
    /\ b_result = <<>>
    /\ b_op = "new"

NextBounds == bound_call \/ clamp_call \/ clamp_again_call

SpecBounds == InitBounds /\ [][NextBounds]_vars

InitPad ==
    /\ LayoutIdle
    /\ BoundsIdle
    /\ GpuIdle
    /\ AppIdle
    /\ overflow_checks \in BOOLEAN
    /\ p_size \in PadSizes
    /\ p_result = <<>>
    /\ p_op = "new"

NextPad == pad_call \/ pad_again_call

SpecPad == InitPad /\ [][NextPad]_vars

\* a GpuBuffer<T> for some element size: new, then extends and submissions
InitBuffer ==
    /\ LayoutIdle
    /\ BoundsIdle
    /\ PadIdle
    /\ AppIdle
    /\ elem_size \in ElemSizes
    /\ length = 0
    /\ capacity = 0
    /\ inner = 0
    /\ buffers = <<>>
    /\ pending = <<>>
    /\ panicked = FALSE
    /\ g_last = [op |-> "none"]
    /\ g_calls = 0
    /\ requested = 0
    /\ points = <<>>
    /\ draws = <<>>

NextBuffer ==
    \/ \E usage \in Usages, len \in 0..MaxLength : new_call(usage, len)
    \/ \E len \in 0..MaxLength : extend_call(len)
    \/ submit

SpecBuffer == InitBuffer /\ [][NextBuffer]_vars

\* a Line: new, then appends, extends, submissions and frames
InitLine ==
    /\ LayoutIdle
    /\ BoundsIdle
    /\ PadIdle
    /\ AppIdle
    /\ GpuIdle

NextLine ==
    \/ \E xs \in XsSamples, ys \in YsSamples : Line_new_call(xs, ys)
    \/ \E p \in PointSamples : append_call(p[1], p[2])
    \/ \E xs \in XsSamples, ys \in YsSamples : Line_extend_call(xs, ys)
    \/ submit
    \/ render

SpecLine == InitLine /\ [][NextLine]_vars

\* App::new(layout, xs, ys), then the events of the event loop
InitApp ==
    /\ LayoutIdle
    /\ BoundsIdle
    /\ PadIdle
    /\ GpuIdle
    /\ app = "Uninitialized"
    /\ app_xs \in XsSamples
    /\ app_ys \in YsSamples
    /\ layout \in PlotLayouts
    /\ window = 0
    /\ input = Input_default
    /\ exiting = FALSE
    /\ redraw_requested = FALSE
    /\ a_last = [handler |-> "none"]
    /\ a_calls = 0

NextApp ==
    \/ \E created \in BOOLEAN, sf \in ScaleFactors : resumed(created, sf)
    \/ \E window_id \in WindowIds, event \in WindowEvents : window_event(window_id, event)

SpecApp == InitApp /\ [][NextApp]_vars

----------------------------------------------------------------------------
(* The claims.                                                             *)

Axes == {"x", "y"}

WellFormed(iv) == RLe(iv.min, iv.max)

Inside(iv, outer) == RGe(iv.min, outer.min) /\ RLe(iv.max, outer.max)

\* the padded plotting rectangle as the specification states it
InPlotRect(self, mouse_position) ==
    LET x == RDiv(mouse_position[1], self.scale_factor)
        y == RDiv(mouse_position[2], self.scale_factor)
    IN  /\ RLe(self.padding.left, x)
        /\ RLe(x, RSub(self.logical_width, self.padding.right))
        /\ RLe(self.padding.top, y)
        /\ RLe(y, RSub(self.logical_height, self.padding.bottom))

\* C1: after any sequence of drag, zoom and resize calls, data_bounds lies
\* inside interaction_bounds on both axes.
C1_DataBoundsInsideInteractionBounds ==
    \A ax \in Axes : Inside(data_bounds[ax], interaction_bounds[ax])

\* C2: for well-formed self and other with other no larger than self and other
\* partly outside self, self.bound(other) has the size of other, touches a
\* boundary of self and lies inside self.
C2_BoundShiftsKeepingSize ==
    b_op = "bound" =>
        \A ax \in Axes :
            LET s == b_self[ax]
                o == b_other[ax]
                r == b_result[1][ax]
            IN  (/\ WellFormed(s) /\ WellFormed(o)
                 /\ RLe(Interval_size(o), Interval_size(s))
                 /\ (RLt(o.min, s.min) \/ RGt(o.max, s.max)))
                => /\ Interval_size(r) = Interval_size(o)
                   /\ (r.min = s.min \/ r.max = s.max)
                   /\ Inside(r, s)

\* C3: after zoom(pixel_pos, factor) at a position that maps to a data
\* position, on each axis the size of data_bounds is factor times its size
\* before whenever that product does not exceed the size of
\* interaction_bounds, and data_bounds is interaction_bounds otherwise.
C3_ZoomScalesSizeByFactor ==
    (/\ last.op = "zoom"
     /\ convert_to_data_position(last.pre, last.pos[1]) # <<>>)
    => \A ax \in Axes :
           LET product == RMul(last.factor, Interval_size(last.pre.data_bounds[ax]))
           IN  IF RLe(product, Interval_size(interaction_bounds[ax]))
               THEN Interval_size(data_bounds[ax]) = product
               ELSE data_bounds[ax] = interaction_bounds[ax]

C4_Other == [x |-> Interval(Rat(2, 10), Rat(3, 10)), y |-> Interval(Rat(1, 10), Rat(9, 10))]

C4_Case == b_op = "bound" /\ b_self = Bounds_UNIT /\ b_other = C4_Other

\* C4 as stated: Bounds::UNIT.bound(Bounds{x:(0.2,0.3), y:(0.1,0.9)}) has
\* x = (0.2,0.3) and y = Interval::UNIT.
C4_UnitBoundYieldsUnitY ==
    C4_Case => /\ b_result[1].x = Interval(Rat(2, 10), Rat(3, 10))
               /\ b_result[1].y = Interval_UNIT

\* C4 as amended: Bounds::UNIT.bound(Bounds{x:(0.2,0.3), y:(0.1,0.9)}) has
\* x = (0.2,0.3) and y = (0.1,0.9), both unchanged.
C4_UnitBoundYieldsOther ==
    C4_Case => /\ b_result[1].x = Interval(Rat(2, 10), Rat(3, 10))
               /\ b_result[1].y = Interval(Rat(1, 10), Rat(9, 10))

C4_Witness == C4_Case /\ b_result[1] = C4_Other

\* C5: for well-formed self and other with other no larger than self and
\* fully inside self, self.bound(other) is other.
C5_BoundKeepsInsideArgument ==
    b_op = "bound" =>
        \A ax \in Axes :
            LET s == b_self[ax]
                o == b_other[ax]
            IN  (/\ WellFormed(s) /\ WellFormed(o)
                 /\ RLe(Interval_size(o), Interval_size(s))
                 /\ RLe(s.min, o.min) /\ RLe(o.max, s.max))
                => b_result[1][ax] = o

\* a bound call whose argument is inside self, smaller than it and shares
\* its lower edge
C5_Witness ==
    /\ b_op = "bound"
    /\ \E ax \in Axes :
          /\ WellFormed(b_self[ax]) /\ WellFormed(b_other[ax])
          /\ b_other[ax].min = b_self[ax].min
          /\ RLt(b_other[ax].min, b_other[ax].max)
          /\ RLt(b_other[ax].max, b_self[ax].max)
          /\ b_result[1][ax] = b_other[ax]

\* C6: whenever other is larger than self, self.bound(other) is self,
\* wherever other lies.
C6_BoundOversizedYieldsSelf ==
    b_op = "bound" =>
        \A ax \in Axes :
            RGt(Interval_size(b_other[ax]), Interval_size(b_self[ax]))
            => b_result[1][ax] = b_self[ax]

\* a bound call whose argument is larger than self and starts inside self
C6_Witness ==
    /\ b_op = "bound"
    /\ \E ax \in Axes :
          /\ RGt(Interval_size(b_other[ax]), Interval_size(b_self[ax]))
          /\ RGt(b_other[ax].min, b_self[ax].min)
          /\ RLt(b_other[ax].min, b_self[ax].max)
          /\ b_result[1][ax] = b_self[ax]

\* C7: zoom(pixel_pos, 1.0) at a position that maps to a data position
\* leaves data_bounds unchanged.
C7_ZoomByOneKeepsDataBounds ==
    (/\ last.op = "zoom"
     /\ last.factor = R(1)
     /\ convert_to_data_position(last.pre, last.pos[1]) # <<>>)
    => data_bounds = last.pre.data_bounds

\* C8: drag(p, p, p) leaves data_bounds unchanged, for p inside or outside
\* the plotting rectangle.
C8_DragNowhereKeepsDataBounds ==
    (/\ last.op = "drag"
     /\ last.pos[1] = last.pos[2]
     /\ last.pos[2] = last.pos[3])
    => data_bounds = last.pre.data_bounds

\* C9: drag(start, prior, current) changes no field whenever one of the three
\* positions lies outside the inner plotting rectangle.
C9_DragFromOutsideIsNoOp ==
    (/\ last.op = "drag"
     /\ \E i \in 1..3 : ~InPlotRect(last.pre, last.pos[i]))
    => Self = last.pre

\* C10: a.clamp(b).clamp(b) = a.clamp(b), and a.clamp(b) lies inside a and
\* inside b: its min is at least both mins, its max at most both maxes.
C10_ClampIdempotentInsideBoth ==
    /\ b_op = "clamp_clamp" => b_result[2] = b_result[1]
    /\ b_op \in {"clamp", "clamp_clamp"} =>
          \A ax \in Axes :
              LET r == b_result[1][ax]
              IN  /\ RGe(r.min, b_self[ax].min) /\ RGe(r.min, b_other[ax].min)
                  /\ RLe(r.max, b_self[ax].max) /\ RLe(r.max, b_other[ax].max)

\* a second clamp made after a first one that cut both axes of a
C10_Witness ==
    /\ b_op = "clamp_clamp"
    /\ \A ax \in Axes : b_result[1][ax] # b_self[ax] /\ b_result[1][ax] # b_other[ax]
    /\ b_result[2] = b_result[1]

U64_aligned(a) == a[1] % COPY_BUFFER_ALIGNMENT = 0

\* what C16 says of one pad_size call: it returns a multiple of the alignment
\* that is >= its argument and >= one alignment unit
C16_Padded(size, result) ==
    /\ result # <<>>
    /\ U64_aligned(result[1])
    /\ U64_le(size, result[1])
    /\ U64_le(U64(COPY_BUFFER_ALIGNMENT), result[1])

\* C16 as stated: for every u64 s, pad_size(s) is a multiple of
\* COPY_BUFFER_ALIGNMENT, >= s and >= one alignment unit, and
\* pad_size(pad_size(s)) = pad_size(s).
C16_PadSizeEveryU64 ==
    /\ p_op \in {"pad", "pad_pad"} => C16_Padded(p_size, p_result[1])
    /\ p_op = "pad_pad" => p_result[2] = p_result[1]

\* C16 as amended: the same for every u64 s <= u64::MAX - 3, the sizes for
\* which s + 3 does not overflow.
C16_PadSizeBelowOverflow ==
    U64_le(p_size, U64_sub(U64_MAX, U64(COPY_BUFFER_ALIGNMENT - 1)).value)
    => /\ p_op \in {"pad", "pad_pad"} => C16_Padded(p_size, p_result[1])
       /\ p_op = "pad_pad" => p_result[2] = p_result[1]

\* pad_size applied twice to an unaligned size just below the overflow
C16_Witness ==
    /\ p_op = "pad_pad"
    /\ ~U64_aligned(p_size)
    /\ U64_lt(U64(MEGABYTE), p_size)
    /\ p_result[2] = p_result[1]
    /\ U64_lt(p_size, p_result[1][1])

\* C11: a buffer created with length n0 and extended by deltas d1..dk has
\* len() = n0 + d1 + ... + dk after every call that returned, whether or not
\* the returned command buffers have been submitted.
C11_LengthIsSumOfRequested ==
    (inner # 0 /\ ~panicked) => length = requested

C11_Witness ==
    /\ g_last.op = "extend"
    /\ ~panicked
    /\ g_calls = MaxBufferCalls
    /\ Len(pending) = 2
    /\ g_last.pre.length > 0
    /\ length > g_last.pre.length
    /\ length = requested

\* C12: across extend calls capacity never decreases: an extend whose
\* required size is at most the capacity leaves capacity and the backing
\* buffer unchanged, and an extend that replaces the backing buffer ends with
\* a strictly greater capacity.
C12_CapacityNeverDecreases ==
    g_last.op = "extend" =>
        LET pre == g_last.pre
            required_size == pre.length * elem_size + g_last.len * elem_size
        IN  /\ capacity >= pre.capacity
            /\ required_size <= pre.capacity
               => capacity = pre.capacity /\ inner = pre.inner
            /\ inner # pre.inner => capacity > pre.capacity
            /\ (~panicked /\ required_size > pre.capacity) => inner # pre.inner

\* an extend of a grown buffer that fits the capacity, after one that grew it
C12_Witness ==
    /\ g_last.op = "extend"
    /\ ~panicked
    /\ g_last.len > 0
    /\ inner # 1
    /\ inner = g_last.pre.inner
    /\ capacity = g_last.pre.capacity
    /\ length > g_last.pre.length

\* C13: after a successful new and any successful extends, for every element
\* size, capacity is a multiple of the copy alignment and at least
\* length * sizeof(T).
C13_CapacityAlignedAndSufficient ==
    (inner # 0 /\ ~panicked) =>
        /\ capacity % COPY_BUFFER_ALIGNMENT = 0
        /\ capacity >= length * elem_size

\* a buffer grown past a megabyte, with room to spare
C13_Witness ==
    /\ g_last.op = "extend"
    /\ g_last.grew
    /\ capacity % COPY_BUFFER_ALIGNMENT = 0
    /\ capacity > length * elem_size
    /\ length > g_last.pre.length
    /\ g_last.pre.length > 0

\* C15: the command buffer returned by an extend that grows the buffer holds,
\* in this order, the copy of the bytes used before the call from the old
\* buffer to offset 0 of the new buffer and the copy of the new data from the
\* staging buffer to byte offset old length * sizeof(T) of the new buffer.
C15_GrowthCopyBeforeFillCopy ==
    (g_last.op = "extend" /\ g_last.grew) =>
        LET pre == g_last.pre
            commands == g_last.commands
        IN  /\ inner # pre.inner
            /\ Len(commands) = 2
            /\ commands[1] = copy_buffer_to_buffer(pre.inner, 0, inner, 0,
                                                   pre.length * elem_size)
            /\ commands[2].src \notin {pre.inner, inner}
            /\ commands[2].src_offset = 0
            /\ commands[2].dst = inner
            /\ commands[2].dst_offset = pre.length * elem_size
            /\ commands[2].size = g_last.len * elem_size

C15_Witness ==
    /\ g_last.op = "extend"
    /\ g_last.grew
    /\ g_last.pre.length > 0
    /\ g_last.len > 0
    /\ Len(g_last.commands) = 2
    /\ g_last.commands[1].size > 0
    /\ g_last.commands[2].dst = inner

\* the elements the line's buffer should hold: the points, interleaved
Interleaved == [i \in 1..(2 * Len(points)) |-> points[(i + 1) \div 2][2 - (i % 2)]]

\* C14: after Line::new and any appends and extends, the buffer has length
\* 2 * (number of points), and once the returned command buffers have been
\* submitted in call order its contents are the pairs of all points in
\* insertion order.
C14_ContentsAreInterleavedPoints ==
    (inner # 0 /\ ~panicked) =>
        /\ length = 2 * Len(points)
        /\ pending = <<>> =>
              \A i \in 1..length : Elem(buffers[inner], i) = Interleaved[i]

\* xs = [0,1,2], ys = [0,1,0], then append(3, 1), submitted
C14_Witness ==
    /\ ~panicked
    /\ pending = <<>>
    /\ g_last.op = "append"
    /\ g_last.grew
    /\ points = <<<<0, 0>>, <<1, 1>>, <<2, 0>>, <<3, 1>>>>
    /\ length = 8
    /\ buffers[inner].data = <<0, 0, 1, 1, 2, 0, 3, 1>>

\* C17: Line::new and Line::extend panic whenever xs.len() # ys.len(), and
\* a failed extend leaves length, capacity and the backing buffer unchanged
\* and encodes no GPU work.
C17_LengthMismatchPanics ==
    (g_last.op \in {"Line_new", "Line_extend"} /\ Len(g_last.xs) # Len(g_last.ys)) =>
        /\ panicked
        /\ length = g_last.pre.length
        /\ capacity = g_last.pre.capacity
        /\ inner = g_last.pre.inner
        /\ buffers = g_last.device
        /\ pending = g_last.pending
        /\ g_last.commands = <<>>

C17_Witness ==
    /\ g_last.op = "Line_extend"
    /\ Len(g_last.xs) # Len(g_last.ys)
    /\ panicked
    /\ length > 0
    /\ length = g_last.pre.length
    /\ pending = g_last.pending

\* C18: the draw call issued for a line has vertex count 2 * point_count.
C18_DrawsTwoVerticesPerPoint ==
    \A i \in 1..Len(draws) : draws[i] = 2 * Len(points)

\* C19: resize, drag and zoom never change interaction_bounds, padding or
\* scale_factor; resize leaves data_bounds unchanged and changes only
\* logical_width and logical_height; drag and zoom leave logical_width and
\* logical_height unchanged.
C19_FrameOfResizeDragZoom ==
    last.op \in {"resize", "drag", "zoom"} =>
        /\ interaction_bounds = last.pre.interaction_bounds
        /\ padding = last.pre.padding
        /\ scale_factor = last.pre.scale_factor
        /\ last.op = "resize" => data_bounds = last.pre.data_bounds
        /\ last.op \in {"drag", "zoom"} =>
              /\ logical_width = last.pre.logical_width
              /\ logical_height = last.pre.logical_height

\* a resize that changed the logical size, after a drag or zoom that changed
\* data_bounds
C19_Witness ==
    /\ last.op = "resize"
    /\ calls = MaxCalls
    /\ logical_width # last.pre.logical_width
    /\ logical_height # last.pre.logical_height
    /\ data_bounds = last.pre.data_bounds
    /\ data_bounds \notin {Bounds_UNIT, Box(1, 5, 1, 5)}

\* C20: is_on_inner(pixel_pos) is true exactly when pixel_pos / scale_factor
\* lies in the padded plotting rectangle, for every logical width and height.
C20_IsOnInnerIffInPlotRect ==
    \A p \in Positions : is_on_inner(Self, p) <=> InPlotRect(Self, p)

\* the fractional coordinate of a pixel position inside the padded plot, as
\* the specification writes it
C21_Fraction(self, p) ==
    <<RDiv(RSub(RDiv(p[1], self.scale_factor), self.padding.left),
           RSub(RSub(self.logical_width, self.padding.left), self.padding.right)),
      RDiv(RSub(RSub(self.logical_height, RDiv(p[2], self.scale_factor)),
                self.padding.bottom),
           RSub(RSub(self.logical_height, self.padding.top), self.padding.bottom))>>

C21_InUnit(f) == RGe(f, R(0)) /\ RLe(f, R(1))

\* the mapping part of C21 for the layout and position of the last zoom
C21_Mapping ==
    LET self == last.pre
        p == last.pos[1]
        f == C21_Fraction(self, p)
        m == convert_to_data_position(self, p)
        db == self.data_bounds
    IN  /\ m = <<>> <=> ~(C21_InUnit(f[1]) /\ C21_InUnit(f[2]))
        /\ m # <<>> =>
              /\ m[1] = RAdd(db.x.min, RMul(f[1], RSub(db.x.max, db.x.min)))
              /\ m[2] = RAdd(db.y.min, RMul(f[2], RSub(db.y.max, db.y.min)))
              /\ RDiv(p[2], self.scale_factor)
                    = RSub(self.logical_height, self.padding.bottom)
                 => m[2] = db.y.min
              /\ RDiv(p[2], self.scale_factor) = self.padding.top
                 => m[2] = db.y.max

\* C21 as stated: convert_to_data_position returns no mapping exactly when
\* the fractional coordinate is outside [0,1] on either axis, and otherwise
\* min + fraction * size per axis with Y flipped; zoom leaves data_bounds
\* unchanged exactly when no mapping is returned.
C21_ZoomNoOpExactlyWhenNoMapping ==
    last.op = "zoom" =>
        /\ C21_Mapping
        /\ data_bounds = last.pre.data_bounds
           <=> convert_to_data_position(last.pre, last.pos[1]) = <<>>

\* C21, amended: the mapping as stated; zoom leaves data_bounds unchanged
\* whenever no mapping is returned, and otherwise sets it to
\* interaction_bounds.bound of the bounds scaled about the mapped position.
C21_ZoomNoOpWhenNoMapping ==
    last.op = "zoom" =>
        /\ C21_Mapping
        /\ convert_to_data_position(last.pre, last.pos[1]) = <<>>
           => data_bounds = last.pre.data_bounds
        /\ convert_to_data_position(last.pre, last.pos[1]) # <<>>
           => data_bounds = zoom_bounds(last.pre, last.pos[1], last.factor)

\* a zoom at the bottom edge of the plot that changed data_bounds
C21_Witness ==
    /\ last.op = "zoom"
    /\ convert_to_data_position(last.pre, last.pos[1]) # <<>>
    /\ C21_Fraction(last.pre, last.pos[1])[2] = R(0)
    /\ convert_to_data_position(last.pre, last.pos[1])[2] = last.pre.data_bounds.y.min
    /\ data_bounds # last.pre.data_bounds

\* C24: after any sequence of drag, zoom (factor > 0) and resize calls on a
\* layout with positive inner size and initial data_bounds inside
\* interaction_bounds, data_bounds is well-formed on both axes.
C24_DataBoundsStayWellFormed ==
    \A ax \in Axes : WellFormed(data_bounds[ax])

\* the smallest multiple of a megabyte that is at least size
C22_NextMegabyte(size) == ((size + MEGABYTE - 1) \div MEGABYTE) * MEGABYTE

\* C22: for the required size of every new and extend that returned, default_growth is the
\* smallest multiple of 1024*1024 that is at least the required size, and
\* the capacity allocated is a whole number of megabytes.
C22_GrowthRoundsUpToMegabyte ==
    (g_last.op \in {"new", "extend"} /\ ~panicked) =>
        LET required_size == (g_last.pre.length + g_last.len) * elem_size
        IN  /\ growth(g_last.pre.capacity, required_size, g_last.op = "new")
                  = C22_NextMegabyte(required_size)
            /\ capacity % MEGABYTE = 0

\* C25: with the default growth policy and usage flags that include COPY_SRC
\* and COPY_DST, new and every extend after it return, for every element
\* size, length and length delta.
C25_NewAndExtendNeverPanic ==
    /\ (g_last.op = "new" /\ COPY_USAGES \subseteq g_last.usage) => ~panicked
    /\ g_last.op = "extend" => ~panicked

\* the app, its layout and its line are as the last event found them
C23_Unchanged == AppSelf = a_last.pre

\* C23: the App starts Uninitialized, is Initialized after the first resumed
\* that returns and never Uninitialized again; a window event delivered
\* while Uninitialized, a resumed delivered while Initialized and a window
\* event carrying another window's id change nothing.
C23_TwoStatesOneTransition ==
    /\ a_calls = 0 => app = "Uninitialized"
    /\ a_last.handler # "none" =>
          /\ a_last.pre.app = "Initialized" => app = "Initialized"
          /\ (a_last.handler = "resumed" /\ ~panicked) => app = "Initialized"
          /\ (a_last.handler = "window_event" /\ a_last.pre.app = "Uninitialized")
             => C23_Unchanged
          /\ (a_last.handler = "resumed" /\ a_last.pre.app = "Initialized")
             => C23_Unchanged
          /\ (a_last.handler = "window_event" /\ a_last.window_id # a_last.pre.window)
             => C23_Unchanged

\* a cursor move for another window, on an app whose own cursor has moved
C23_Witness ==
    /\ app = "Initialized"
    /\ a_calls = MaxEvents
    /\ a_last.handler = "window_event"
    /\ a_last.event.type = "CursorMoved"
    /\ a_last.window_id # window
    /\ input.prior_position # <<>>
    /\ input.prior_position # <<a_last.event.position>>
    /\ C23_Unchanged

============================================================================
